---- MODULE Spec2Model ----
(***************************************************************************)
(* Static-site generation and deployment pipeline.                         *)
(*   scripts/generate-site.js : SiteGenerator (generateSite, bulk build)   *)
(*   scripts/deploy.js        : DeploymentManager, generateConfigByType,   *)
(*                              DevServer                                  *)
(* Every await of the source is one step of the model; an I/O or           *)
(* version-control call may fail at every step.                            *)
(***************************************************************************)
EXTENDS Integers, Sequences, FiniteSets, TLC

\* Number of client configurations in the store (files 1.json .. N.json,
\* the slug of configuration i is i, after the <slug>.json convention).
NumClients == 2

Sites == 1..NumClients

\* The site types an answer set is drawn from: two registered in the
\* template registry and one that is not (portfolio, ecommerce and blog all
\* take the same path: templates[siteType] is undefined).
SiteTypeChoices == {"restaurant", "business", "portfolio"}

VARIABLES
    clients,    \* clients[i]: text of the persisted configuration file i
    out,        \* out[s][name]: content of <output>/<s>/<name>, Absent if none
    pc,         \* control point of the running command
    mode,       \* which entry point called generateSite: "single" or "all"
    cur,        \* site being processed by the running command (0: none)
    config,     \* the configuration generateSite has loaded
    todo,       \* remaining entries of a bulk loop
    result,     \* how the running command's entry point ended
    err,        \* the error generateSite threw last ("" if none)
    log,        \* console output of the running command
    steps,      \* file-system and git operations of the running command
    git,        \* git[s]: the repository in <output>/<s>/.git
    stray,      \* whether <output>/.DS_Store, a plain file, exists
    staged,     \* the index git add left for the commit that follows it
    ret,        \* what deployToNetlify returned last
    response,   \* the HTTP response of the dev server's last request
    faulty,     \* the operations the environment may make fail
    watch,      \* the dev server's watcher and its running change callbacks
    calc        \* the call of a pure function under study: argument and value

vars == <<clients, out, pc, mode, cur, config, todo, result, err, log, steps,
          git, stray, staged, ret, response, faulty, watch, calc>>

\* The variables the builder never touches.
deployVars == <<git, stray, staged, ret, response, faulty, watch, calc>>

\* The variables of the running command, which a callback of the dev server
\* and a call of a pure function leave alone.
commandVars == <<pc, mode, cur, config, todo, result, err, log, steps, git,
                 stray, staged, ret, response, faulty, calc>>
pureVars == <<pc, mode, cur, config, todo, result, err, log, steps, git,
              stray, staged, ret, response, faulty>>

----------------------------------------------------------------------------
(* Values *)

Absent == <<>>
Malformed == [text |-> "malformed"]
NoConfig == [none |-> TRUE]

RANGE(f) == {f[x] : x \in DOMAIN f}

\* Names under a site's output directory. "." is the directory itself.
BundleNames == {".", "index.html", "styles.css", "assets", "_redirects",
                "netlify.toml", "README.md"}
VcNames == {".git", ".gitignore"}
Names == BundleNames \cup VcNames

EmptyDir == [n \in Names |-> Absent]

----------------------------------------------------------------------------
(* deploy.js: generateConfigByType *)

\* templates[answers.siteType]; an unregistered type yields no fields.
TemplateFor(answers) ==
    IF answers.siteType = "restaurant"
    THEN [header |-> [logo |-> "/assets/logo.png",
                      navigation |-> <<"#home", "#menu", "#about", "#contact">>],
          hero |-> [title |-> <<"Bienvenue chez ", answers.clientName>>,
                    subtitle |-> "Une experience culinaire unique",
                    backgroundImage |-> "/assets/hero-bg.jpg",
                    ctaButton |-> [text |-> "Reserver une table",
                                   href |-> "#contact", style |-> "primary"]],
          sections |-> << [title |-> "Notre Histoire",
                           id |-> "about", type |-> "text-image",
                           content |-> "Decouvrez notre passion...",
                           image |-> "/assets/about.jpg",
                           layout |-> "image-right"] >>]
    ELSE IF answers.siteType = "business"
    THEN [header |-> [logo |-> "/assets/logo.png",
                      navigation |-> <<"#home", "#services", "#about", "#contact">>],
          hero |-> [title |-> <<answers.clientName>>,
                    subtitle |-> "Votre partenaire de confiance",
                    backgroundImage |-> "/assets/hero-bg.jpg",
                    ctaButton |-> [text |-> "Nos services",
                                   href |-> "#services", style |-> "primary"]]]
    ELSE <<>>

\* { ...baseConfig, ...templates[type], contact, footer }: later spreads win.
generateConfigByType(answers) ==
    LET baseConfig ==
            [client |-> [name |-> answers.clientName,
                         slug |-> answers.clientSlug,
                         domain |-> <<answers.clientSlug, ".netlify.app">>],
             seo |-> [title |-> answers.title,
                      description |-> answers.description,
                      keywords |-> "",
                      favicon |-> "/assets/favicon.ico"],
             theme |-> [primaryColor |-> answers.primaryColor,
                        secondaryColor |-> answers.secondaryColor,
                        accentColor |-> "#e74c3c",
                        backgroundColor |-> "#ffffff",
                        textColor |-> "#333333",
                        fontFamily |-> "'Inter', sans-serif",
                        borderRadius |-> "8px"]]
        shared ==
            [contact |-> [title |-> "Nous Contacter",
                          address |-> [street |-> "Adresse a completer",
                                       city |-> "Ville", country |-> "France"],
                          phone |-> "+33 X XX XX XX XX",
                          email |-> <<"contact@", answers.clientSlug, ".com">>,
                          socialMedia |-> <<>>],
             footer |-> [copyright |-> <<"(c) 2024 ", answers.clientName>>,
                         links |-> <<>>]]
    IN  shared @@ TemplateFor(answers) @@ baseConfig

\* The answer sets of the interactive prompt for client i: the slug is given
\* explicitly, the title and the colours are the prompt's defaults.
AnswersFor(i) ==
    { [siteType |-> t, title |-> "Acme", clientName |-> "Acme",
       clientSlug |-> i, description |-> "", primaryColor |-> "#3498db",
       secondaryColor |-> "#2c3e50"] : t \in SiteTypeChoices }

\* JSON.stringify(config, null, 2) and JSON.parse of a file's text.
Stringify(cfg) == [text |-> "json", value |-> cfg]
ParseOk(text) == text.text = "json"
Parse(text) == text.value

\* What a configuration file may hold: a synthesized configuration or text
\* that does not parse.
FileTexts(i) ==
    {Malformed} \cup {Stringify(generateConfigByType(a)) : a \in AnswersFor(i)}

\* The stores the deployment pipeline is exercised on: restaurant sites and
\* files that do not parse.
DeployedTexts(i) ==
    {Malformed} \cup {Stringify(generateConfigByType(a)) :
                         a \in {b \in AnswersFor(i) : b.siteType = "restaurant"}}

----------------------------------------------------------------------------
(* generate-site.js: generateAssetsList *)

Truthy(rec, field) == field \in DOMAIN rec /\ rec[field] # ""

\* assets.add(x): a Set keeps insertion order and ignores a second add.
SetAdd(seq, x) == IF x \in RANGE(seq) THEN seq ELSE Append(seq, x)

RECURSIVE AddItems(_, _)
AddItems(seq, items) ==
    IF items = <<>> THEN seq
    ELSE AddItems(IF Truthy(Head(items), "image")
                  THEN SetAdd(seq, Head(items).image) ELSE seq,
                  Tail(items))

RECURSIVE AddSections(_, _)
AddSections(seq, sections) ==
    IF sections = <<>> THEN seq
    ELSE LET section == Head(sections)
             a1 == IF Truthy(section, "image")
                   THEN SetAdd(seq, section.image) ELSE seq
             a2 == IF "items" \in DOMAIN section /\ section.items # <<>>
                   THEN AddItems(a1, section.items) ELSE a1
         IN  AddSections(a2, Tail(sections))

\* Reading a property of undefined throws a TypeError: config.header.logo,
\* config.hero.backgroundImage and config.sections.forEach are unguarded.
AssetsListThrows(cfg) ==
    \/ "header" \notin DOMAIN cfg
    \/ "hero" \notin DOMAIN cfg
    \/ "sections" \notin DOMAIN cfg

generateAssetsList(cfg) ==
    LET a1 == IF Truthy(cfg.header, "logo") THEN <<cfg.header.logo>> ELSE <<>>
        a2 == IF Truthy(cfg.hero, "backgroundImage")
              THEN SetAdd(a1, cfg.hero.backgroundImage) ELSE a1
    IN  AddSections(a2, cfg.sections)

----------------------------------------------------------------------------
(* generate-site.js: what each build step writes *)

RenderHTML(cfg) == <<"html", cfg>>
StylesCSS == <<"css", "templates/styles.css">>
Directory == <<"dir", "">>
redirectsContent == <<"text", "/*    /index.html   200">>
netlifyConfig == <<"text", "[build] publish = . ...">>
readmeContent(cfg) ==
    <<"readme", [assets |-> generateAssetsList(cfg), name |-> cfg.client.name,
                 slug |-> cfg.client.slug,
                 primaryColor |-> cfg.theme.primaryColor,
                 email |-> cfg.contact.email]>>

Put(o, s, name, content) == [o EXCEPT ![s][name] = content]

----------------------------------------------------------------------------
(* The environment *)

BuildOps == {"readConfig", "mkdir", "writeHTML", "copyCSS", "mkdirAssets",
             "writeRedirects", "writeToml", "writeReadme", "readdirClients"}
VcOps == {"gitInit", "writeGitignore", "gitAdd", "gitCommit"}

\* The outcomes of an operation: it succeeds, or, if the environment may
\* make it fail, it rejects.
Outcomes(op) == IF op \in faulty THEN BOOLEAN ELSE {TRUE}

\* Files git tracks in a site directory: not .git itself, and not assets/,
\* which is empty (git records no empty directory). No bundle file matches
\* a pattern of the ignore-list.
TrackedNames == {"index.html", "styles.css", "_redirects", "netlify.toml",
                 "README.md", ".gitignore"}
Tracked(dir) == [n \in TrackedNames |-> dir[n]]
EmptyTree == [n \in TrackedNames |-> Absent]
NoRepo == [commits |-> 0, head |-> EmptyTree]

\* No dev server runs; no function is being called.
NoWatch == [up |-> FALSE, handlers |-> <<>>]
NoCalc == [fn |-> "none"]

----------------------------------------------------------------------------
(* Initial state: a store of persisted configurations, nothing generated *)

\* The stores in which file i holds one of texts[i].
Stores(texts) ==
    {c \in [Sites -> UNION {texts[i] : i \in Sites}] :
        \A i \in Sites : c[i] \in texts[i]}

InitCommon ==
    /\ out = [s \in Sites |-> EmptyDir]
    /\ pc = "idle"
    /\ mode = "none"
    /\ cur = 0
    /\ config = NoConfig
    /\ todo = <<>>
    /\ result = "none"
    /\ err = ""
    /\ log = <<>>
    /\ steps = <<>>
    /\ git = [s \in Sites |-> NoRepo]
    /\ staged = EmptyTree
    /\ ret = "none"
    /\ response = <<>>
    /\ watch = NoWatch
    /\ calc = NoCalc

\* Any file-system operation of the builder may fail.
InitBuild ==
    /\ InitCommon
    /\ clients \in Stores([i \in Sites |-> FileTexts(i)])
    /\ stray = FALSE
    /\ faulty = BuildOps

----------------------------------------------------------------------------
(* generate-site.js: SiteGenerator.generateSite, one action per await *)

\* catch (error) { console.error(...); throw error; } and what the caller of
\* generateSite does with the rejection: main lets it reject (single mode),
\* generateAllSites catches it outside its loop and logs (bulk mode).
GenerateSiteThrows(e) ==
    /\ err' = e
    /\ pc' = "done"
    /\ IF mode = "all"
       THEN /\ log' = log \o << <<"build-error", cur>>, <<"bulk-error", 0>> >>
            /\ result' = "returned"
       ELSE /\ log' = Append(log, <<"build-error", cur>>)
            /\ result' = "threw"

\* node generate-site.js <config-file>
StartGenerateSite(i) ==
    /\ pc = "idle"
    /\ pc' = "gs_load"
    /\ mode' = "single"
    /\ cur' = i
    /\ result' = "running"
    /\ log' = << <<"build-start", i>> >>
    /\ UNCHANGED <<clients, out, config, todo, err, steps, deployVars>>

\* loadConfig: fs.readFile then JSON.parse
LoadConfig ==
    /\ pc = "gs_load"
    /\ \E ok \in Outcomes("readConfig") :
         IF ~ok
         THEN /\ steps' = Append(steps, <<"readConfig", cur, FALSE>>)
              /\ GenerateSiteThrows("EIO")
              /\ UNCHANGED config
         ELSE IF ~ParseOk(clients[cur])
         THEN /\ steps' = steps \o << <<"readConfig", cur, TRUE>>,
                                      <<"parseConfig", cur, FALSE>> >>
              /\ GenerateSiteThrows("SyntaxError")
              /\ UNCHANGED config
         ELSE /\ steps' = steps \o << <<"readConfig", cur, TRUE>>,
                                      <<"parseConfig", cur, TRUE>> >>
              /\ config' = Parse(clients[cur])
              /\ log' = Append(log, <<"config-loaded", cur>>)
              /\ pc' = "gs_mkdir"
              /\ UNCHANGED <<result, err>>
    /\ UNCHANGED <<clients, out, mode, cur, todo, deployVars>>

\* BuildStep with a rollback: a failed step removes what the build wrote.
BuildStepRollsBack(here, next, op, name, content, line) ==
    /\ pc = here
    /\ \E ok \in Outcomes(op) :
         /\ steps' = Append(steps, <<op, config.client.slug, ok>>)
         /\ IF ok
            THEN /\ out' = Put(out, config.client.slug, name, content)
                 /\ pc' = next
                 /\ log' = log \o line
                 /\ UNCHANGED <<result, err>>
            ELSE /\ GenerateSiteThrows("EIO")
                 /\ out' = [out EXCEPT ![config.client.slug] = EmptyDir]
    /\ UNCHANGED <<clients, mode, cur, config, todo, deployVars>>

\* One file-system step of the build: it either performs its write and moves
\* on, or fails, writes nothing, and generateSite throws.
BuildStep(here, next, op, name, content, line) ==
    /\ pc = here
    /\ \E ok \in Outcomes(op) :
         /\ steps' = Append(steps, <<op, config.client.slug, ok>>)
         /\ IF ok
            THEN /\ out' = Put(out, config.client.slug, name, content)
                 /\ pc' = next
                 /\ log' = log \o line
                 /\ UNCHANGED <<result, err, deployVars>>
            ELSE /\ GenerateSiteThrows("EIO")
                 /\ UNCHANGED out
    /\ UNCHANGED <<clients, mode, cur, config, todo, deployVars>>

\* MakeOutputDir without { recursive: true }: an existing directory makes
\* mkdir reject.
MakeOutputDirExclusive ==
    IF pc = "gs_mkdir" /\ out[config.client.slug]["."] # Absent
    THEN /\ steps' = Append(steps, <<"mkdir", config.client.slug, FALSE>>)
         /\ GenerateSiteThrows("EEXIST")
         /\ UNCHANGED <<clients, out, mode, cur, config, todo, deployVars>>
    ELSE BuildStep("gs_mkdir", "gs_html", "mkdir", ".", Directory, <<>>)

\* fs.mkdir(siteOutputDir, { recursive: true }): an existing directory is
\* left as it is.
MakeOutputDir ==
    BuildStep("gs_mkdir", "gs_html", "mkdir", ".", Directory, <<>>)

\* generateHTML: read the template, render, write index.html
GenerateHTML ==
    BuildStep("gs_html", "gs_css", "writeHTML", "index.html",
              RenderHTML(config), << <<"html-written", cur>> >>)

\* copyAssets, first half: fs.copyFile of the stylesheet
CopyStylesheet ==
    BuildStep("gs_css", "gs_assets", "copyCSS", "styles.css", StylesCSS,
              << <<"css-copied", cur>> >>)

\* MakeAssetsDir going on to the hosting descriptor, the routing rule skipped.
MakeAssetsDirThenToml ==
    BuildStep("gs_assets", "gs_toml", "mkdirAssets", "assets", Directory,
              << <<"assets-created", cur>> >>)

\* copyAssets, second half: fs.mkdir of assets/
MakeAssetsDir ==
    BuildStep("gs_assets", "gs_redirects", "mkdirAssets", "assets", Directory,
              << <<"assets-created", cur>> >>)

\* setupProjectFiles: _redirects is written first
WriteRedirects ==
    BuildStep("gs_redirects", "gs_toml", "writeRedirects", "_redirects",
              redirectsContent, <<>>)

\* setupProjectFiles: then netlify.toml
WriteNetlifyToml ==
    BuildStep("gs_toml", "gs_readme", "writeToml", "netlify.toml",
              netlifyConfig, <<>>)

\* setupProjectFiles: the README template literal is evaluated (it calls
\* generateAssetsList, which throws on a missing block), then written.
WriteReadme ==
    /\ pc = "gs_readme"
    /\ IF AssetsListThrows(config)
       THEN /\ steps' = Append(steps, <<"assetsList", config.client.slug, FALSE>>)
            /\ GenerateSiteThrows("TypeError")
            /\ UNCHANGED out
       ELSE \E ok \in Outcomes("writeReadme") :
              /\ steps' = steps \o << <<"assetsList", config.client.slug, TRUE>>,
                                      <<"writeReadme", config.client.slug, ok>> >>
              /\ IF ok
                 THEN /\ out' = Put(out, config.client.slug, "README.md",
                                    readmeContent(config))
                      /\ pc' = "gs_return"
                      /\ log' = Append(log, <<"readme-written", cur>>)
                      /\ UNCHANGED <<result, err>>
                 ELSE /\ GenerateSiteThrows("EIO")
                      /\ UNCHANGED out
    /\ UNCHANGED <<clients, mode, cur, config, todo, deployVars>>

\* the two success lines and return siteOutputDir
GenerateSiteReturns ==
    /\ pc = "gs_return"
    /\ log' = Append(log, <<"build-ok", cur>>)
    /\ IF mode = "all"
       THEN pc' = "all_loop" /\ UNCHANGED result
       ELSE pc' = "done" /\ result' = "returned"
    /\ UNCHANGED <<clients, out, mode, cur, config, todo, err, steps, deployVars>>

----------------------------------------------------------------------------
(* generate-site.js: SiteGenerator.generateAllSites *)

RECURSIVE Ascending(_, _)
Ascending(lo, hi) == IF lo > hi THEN <<>> ELSE <<lo>> \o Ascending(lo + 1, hi)

\* node generate-site.js --all
StartGenerateAll ==
    /\ pc = "idle"
    /\ pc' = "all_readdir"
    /\ mode' = "all"
    /\ result' = "running"
    /\ UNCHANGED <<clients, out, cur, config, todo, err, log, steps, deployVars>>

\* fs.readdir(clientsDir) and the .json filter, inside the try
ReadClientsDir ==
    /\ pc = "all_readdir"
    /\ \E ok \in Outcomes("readdirClients") :
         /\ steps' = Append(steps, <<"readdirClients", 0, ok>>)
         /\ IF ok
            THEN /\ todo' = Ascending(1, NumClients)
                 /\ log' = Append(log, <<"bulk-start", NumClients>>)
                 /\ pc' = "all_loop"
                 /\ UNCHANGED result
            ELSE /\ log' = Append(log, <<"bulk-error", 0>>)
                 /\ pc' = "done"
                 /\ result' = "returned"
                 /\ UNCHANGED todo
    /\ UNCHANGED <<clients, out, mode, cur, config, err, deployVars>>

\* for (const configFile of jsonFiles) await this.generateSite(configPath)
NextConfigFile ==
    /\ pc = "all_loop"
    /\ IF todo = <<>>
       THEN /\ log' = Append(log, <<"bulk-ok", 0>>)
            /\ pc' = "done"
            /\ result' = "returned"
            /\ UNCHANGED <<cur, todo, deployVars>>
       ELSE /\ cur' = Head(todo)
            /\ todo' = Tail(todo)
            /\ log' = Append(log, <<"build-start", Head(todo)>>)
            /\ pc' = "gs_load"
            /\ UNCHANGED result
    /\ UNCHANGED <<clients, out, mode, config, err, steps, deployVars>>

----------------------------------------------------------------------------
\* The process ends; the next command starts from a clean slate.
Exit ==
    /\ pc = "done"
    /\ pc' = "idle"
    /\ mode' = "none"
    /\ cur' = 0
    /\ config' = NoConfig
    /\ todo' = <<>>
    /\ result' = "none"
    /\ err' = ""
    /\ log' = <<>>
    /\ steps' = <<>>
    /\ staged' = EmptyTree
    /\ ret' = "none"
    /\ response' = <<>>
    /\ UNCHANGED <<clients, out, git, stray, faulty, watch, calc>>

BuildNext ==
    \/ \E i \in Sites : StartGenerateSite(i)
    \/ LoadConfig
    \/ MakeOutputDir
    \/ GenerateHTML
    \/ CopyStylesheet
    \/ MakeAssetsDir
    \/ WriteRedirects
    \/ WriteNetlifyToml
    \/ WriteReadme
    \/ GenerateSiteReturns
    \/ StartGenerateAll
    \/ ReadClientsDir
    \/ NextConfigFile
    \/ Exit

SpecBuild == InitBuild /\ [][BuildNext]_vars

----------------------------------------------------------------------------
(* deploy.js: DeploymentManager.deployToNetlify, one action per await *)

gitignoreContent == <<"text", "node_modules/ *.log .DS_Store .env dist/ tmp/">>

Exists(s, name) == out[s][name] # Absent

\* catch (error) { console.error(...); return false; } and the return to the
\* caller: main (one site) is done, deployAll goes on with its loop.
DeployReturns(value, line) ==
    /\ ret' = value
    /\ log' = log \o line
    /\ IF mode = "deployAll"
       THEN pc' = "da_loop" /\ UNCHANGED result
       ELSE pc' = "done" /\ result' = "returned"

\* DeployCatches without the catch: the rejection reaches the caller.
DeployRethrows ==
    /\ pc' = "done"
    /\ result' = "threw"
    /\ log' = Append(log, <<"deploy-error", cur>>)
    /\ UNCHANGED ret

DeployCatches == DeployReturns("false", << <<"deploy-error", cur>> >>)

\* node deploy.js deploy <site>
StartDeploy(s) ==
    /\ pc = "idle"
    /\ pc' = "dp_access"
    /\ mode' = "deploy"
    /\ cur' = s
    /\ result' = "running"
    /\ log' = << <<"deploy-start", s>> >>
    /\ UNCHANGED <<clients, out, config, todo, err, steps, git, stray, ret,
                   response, faulty, watch, calc, staged>>

\* CheckGitDir with the test dropped: every deploy initializes.
CheckGitDirAlwaysInit ==
    /\ pc = "dp_access"
    /\ pc' = "dp_init"
    /\ UNCHANGED <<clients, out, mode, cur, config, todo, result, err, log,
                   steps, git, stray, ret, response, faulty, watch, calc, staged>>

\* hasGit = fs.access(gitDir) succeeded; initializeGit only if it did not.
\* access is taken to reject exactly when .git does not exist.
CheckGitDir ==
    /\ pc = "dp_access"
    /\ pc' = IF Exists(cur, ".git") THEN "dp_add" ELSE "dp_init"
    /\ UNCHANGED <<clients, out, mode, cur, config, todo, result, err, log,
                   steps, git, stray, ret, response, faulty, watch, calc, staged>>

\* initializeGit: simpleGit(siteDir).init(). simpleGit rejects a directory
\* that does not exist.
GitInit ==
    /\ pc = "dp_init"
    /\ \E ok \in (IF Exists(cur, ".") THEN Outcomes("gitInit") ELSE {FALSE}) :
         /\ steps' = Append(steps, <<"gitInit", cur, ok>>)
         /\ IF ok
            THEN /\ out' = Put(out, cur, ".git", Directory)
                 /\ git' = [git EXCEPT ![cur] = NoRepo]
                 /\ pc' = "dp_ignore"
                 /\ UNCHANGED <<result, log, ret>>
            ELSE /\ DeployCatches
                 /\ UNCHANGED <<out, git>>
    /\ UNCHANGED <<clients, mode, cur, config, todo, err, stray, response,
                   faulty, watch, calc, staged>>

\* WriteGitignore writing the ignore-list over the manifest.
WriteGitignoreOverReadme ==
    /\ pc = "dp_ignore"
    /\ \E ok \in Outcomes("writeGitignore") :
         /\ steps' = Append(steps, <<"writeGitignore", cur, ok>>)
         /\ IF ok
            THEN /\ out' = Put(out, cur, "README.md", gitignoreContent)
                 /\ log' = Append(log, <<"git-initialised", cur>>)
                 /\ pc' = "dp_add"
                 /\ UNCHANGED <<result, ret>>
            ELSE /\ DeployCatches
                 /\ UNCHANGED out
    /\ UNCHANGED <<clients, mode, cur, config, todo, err, git, stray,
                   response, faulty, watch, calc, staged>>

\* initializeGit: fs.writeFile of .gitignore, then the log line
WriteGitignore ==
    /\ pc = "dp_ignore"
    /\ \E ok \in Outcomes("writeGitignore") :
         /\ steps' = Append(steps, <<"writeGitignore", cur, ok>>)
         /\ IF ok
            THEN /\ out' = Put(out, cur, ".gitignore", gitignoreContent)
                 /\ log' = Append(log, <<"git-initialised", cur>>)
                 /\ pc' = "dp_add"
                 /\ UNCHANGED <<result, ret>>
            ELSE /\ DeployCatches
                 /\ UNCHANGED out
    /\ UNCHANGED <<clients, mode, cur, config, todo, err, git, stray,
                   response, faulty, watch, calc, staged>>

\* GitAdd with its rejection dropped: the commit follows a failed add.
GitAddUnchecked ==
    /\ pc = "dp_add"
    /\ \E ok \in Outcomes("gitAdd") :
         /\ steps' = Append(steps, <<"gitAdd", cur, ok>>)
         /\ staged' = IF ok THEN Tracked(out[cur]) ELSE staged
         /\ pc' = "dp_commit"
         /\ UNCHANGED <<result, log, ret>>
    /\ UNCHANGED <<clients, out, mode, cur, config, todo, err, git, stray,
                   response, faulty, watch, calc>>

\* siteGit.add('.'): the index becomes the tracked files of the work tree.
\* Only the commit of the same call reads it: every commit follows its add.
GitAdd ==
    /\ pc = "dp_add"
    /\ \E ok \in Outcomes("gitAdd") :
         /\ steps' = Append(steps, <<"gitAdd", cur, ok>>)
         /\ IF ok
            THEN /\ staged' = Tracked(out[cur])
                 /\ pc' = "dp_commit"
                 /\ UNCHANGED <<result, log, ret>>
            ELSE /\ DeployCatches
                 /\ UNCHANGED staged
    /\ UNCHANGED <<clients, out, mode, cur, config, todo, err, git, stray,
                   response, faulty, watch, calc>>

\* Committed as with --allow-empty: every resolved commit is recorded.
CommittedAllowEmpty(repo, index) ==
    [commits |-> repo.commits + 1, head |-> index]

\* What a resolved commit leaves: git records a commit only if the index
\* differs from HEAD (commit is called without --allow-empty, and the
\* wrapper resolves when git reports nothing to commit).
Committed(repo, index) ==
    IF index = repo.head
    THEN repo
    ELSE [commits |-> repo.commits + 1, head |-> index]

\* siteGit.commit(`Deploy ${siteName} - ${timestamp}`)
GitCommit ==
    /\ pc = "dp_commit"
    /\ \E ok \in Outcomes("gitCommit") :
         /\ steps' = Append(steps, <<"gitCommit", cur, ok>>)
         /\ IF ok
            THEN /\ git' = [git EXCEPT ![cur] = Committed(git[cur], staged)]
                 /\ pc' = "dp_report"
                 /\ UNCHANGED <<result, log, ret>>
            ELSE /\ DeployCatches
                 /\ UNCHANGED git
    /\ UNCHANGED <<clients, out, mode, cur, config, todo, err, stray,
                   response, faulty, watch, calc, staged>>

\* The success line, the four manual next steps, return true
NextStepLines(s) ==
    << <<"deploy-ready", s>>, <<"1-create-repository", s>>,
       <<"2-push", s>>, <<"3-connect-netlify", s>>, <<"4-auto-detect", s>> >>

ReportNextSteps ==
    /\ pc = "dp_report"
    /\ DeployReturns("true", NextStepLines(cur))
    /\ UNCHANGED <<clients, out, mode, cur, config, todo, err, steps, git,
                   stray, response, faulty, watch, calc, staged>>

----------------------------------------------------------------------------
(* deploy.js: DeploymentManager.deployAll *)

OutputRootExists == stray \/ \E s \in Sites : Exists(s, ".")

RECURSIVE SiteEntries(_)
SiteEntries(s) ==
    IF s > NumClients THEN <<>>
    ELSE (IF Exists(s, ".") THEN << [name |-> s, isDirectory |-> TRUE] >>
          ELSE <<>>) \o SiteEntries(s + 1)

\* fs.readdir(outputDir): .DS_Store sorts before every site directory
OutputEntries ==
    (IF stray THEN << [name |-> 0, isDirectory |-> FALSE] >> ELSE <<>>)
        \o SiteEntries(1)

\* node deploy.js deploy
StartDeployAll ==
    /\ pc = "idle"
    /\ pc' = "da_readdir"
    /\ mode' = "deployAll"
    /\ result' = "running"
    /\ UNCHANGED <<clients, out, cur, config, todo, err, log, steps, git,
                   stray, ret, response, faulty, watch, calc, staged>>

\* const sites = await fs.readdir(this.outputDir), outside any try
ReadOutputDir ==
    /\ pc = "da_readdir"
    /\ IF OutputRootExists
       THEN /\ todo' = OutputEntries
            /\ pc' = "da_loop"
            /\ UNCHANGED <<result, err>>
       ELSE /\ pc' = "done"
            /\ result' = "threw"
            /\ err' = "ENOENT"
            /\ UNCHANGED todo
    /\ UNCHANGED <<clients, out, mode, cur, config, log, steps, git, stray,
                   ret, response, faulty, watch, calc, staged>>

\* NextSiteEntry ending the loop at the first site that failed.
NextSiteEntryStopsOnFailure ==
    /\ pc = "da_loop"
    /\ IF todo = <<>> \/ ret = "false"
       THEN /\ pc' = "done"
            /\ result' = "returned"
            /\ UNCHANGED <<cur, todo, log>>
       ELSE /\ todo' = Tail(todo)
            /\ IF Head(todo).isDirectory
               THEN /\ cur' = Head(todo).name
                    /\ log' = Append(log, <<"deploy-start", Head(todo).name>>)
                    /\ pc' = "dp_access"
               ELSE /\ pc' = "da_loop"
                    /\ UNCHANGED <<cur, log>>
            /\ UNCHANGED result
    /\ UNCHANGED <<clients, out, mode, config, err, steps, git, stray, ret,
                   response, faulty, watch, calc, staged>>

\* NextSiteEntry taking the entries from the end of the listing.
NextSiteEntryLastFirst ==
    /\ pc = "da_loop"
    /\ IF todo = <<>>
       THEN /\ pc' = "done"
            /\ result' = "returned"
            /\ UNCHANGED <<cur, todo, log>>
       ELSE /\ todo' = SubSeq(todo, 1, Len(todo) - 1)
            /\ IF todo[Len(todo)].isDirectory
               THEN /\ cur' = todo[Len(todo)].name
                    /\ log' = Append(log, <<"deploy-start", todo[Len(todo)].name>>)
                    /\ pc' = "dp_access"
               ELSE /\ pc' = "da_loop"
                    /\ UNCHANGED <<cur, log>>
            /\ UNCHANGED result
    /\ UNCHANGED <<clients, out, mode, config, err, steps, git, stray, ret,
                   response, faulty, watch, calc, staged>>

\* for (const site of sites): fs.stat, and deployToNetlify on a directory
NextSiteEntry ==
    /\ pc = "da_loop"
    /\ IF todo = <<>>
       THEN /\ pc' = "done"
            /\ result' = "returned"
            /\ UNCHANGED <<cur, todo, log>>
       ELSE /\ todo' = Tail(todo)
            /\ IF Head(todo).isDirectory
               THEN /\ cur' = Head(todo).name
                    /\ log' = Append(log, <<"deploy-start", Head(todo).name>>)
                    /\ pc' = "dp_access"
               ELSE /\ pc' = "da_loop"
                    /\ UNCHANGED <<cur, log>>
            /\ UNCHANGED result
    /\ UNCHANGED <<clients, out, mode, config, err, steps, git, stray, ret,
                   response, faulty, watch, calc, staged>>

----------------------------------------------------------------------------
(* deploy.js: DevServer.start, the request handlers *)

RECURSIVE Names_(_)
Names_(entries) ==
    IF entries = <<>> THEN <<>>
    ELSE <<Head(entries).name>> \o Names_(Tail(entries))

RECURSIVE WithoutDsStore(_)
WithoutDsStore(list) ==
    IF list = <<>> THEN <<>>
    ELSE (IF Head(list) # 0 THEN <<Head(list)>> ELSE <<>>)
             \o WithoutDsStore(Tail(list))

\* GET /api/sites: readdir of the output root, minus .DS_Store; 500 if the
\* readdir rejects
ApiSites ==
    /\ pc = "idle"
    /\ pc' = "done"
    /\ mode' = "api"
    /\ IF OutputRootExists
       THEN /\ response' = <<200>> \o WithoutDsStore(Names_(OutputEntries))
            /\ result' = "returned"
       ELSE /\ response' = <<500>>
            /\ result' = "returned"
    /\ UNCHANGED <<clients, out, cur, config, todo, err, log, steps, git,
                   stray, ret, faulty, watch, calc, staged>>

\* express.static on the output root: GET /<site>/<name>
ServeStatic(s, name) ==
    /\ pc = "idle"
    /\ pc' = "done"
    /\ mode' = "static"
    /\ result' = "returned"
    /\ response' = IF Exists(s, name) /\ out[s][name] # Directory
                   THEN <<200, out[s][name]>>
                   ELSE <<404>>
    /\ UNCHANGED <<clients, out, cur, config, todo, err, log, steps, git,
                   stray, ret, faulty, watch, calc, staged>>

----------------------------------------------------------------------------
(* The whole pipeline *)

\* The builder's environment is sound but for the shared stylesheet, which
\* may be missing; every version-control operation may fail.
Init ==
    /\ InitCommon
    /\ clients \in Stores([i \in Sites |-> DeployedTexts(i)])
    /\ stray \in BOOLEAN
    /\ faulty = VcOps \cup {"copyCSS"}

DeployNext ==
    \/ \E s \in Sites : StartDeploy(s)
    \/ CheckGitDir
    \/ GitInit
    \/ WriteGitignore
    \/ GitAdd
    \/ GitCommit
    \/ ReportNextSteps
    \/ StartDeployAll
    \/ ReadOutputDir
    \/ NextSiteEntry

ServerNext ==
    \/ ApiSites
    \/ \E s \in Sites, name \in BundleNames \ {"."} : ServeStatic(s, name)

Next ==
    \/ \E i \in Sites : StartGenerateSite(i)
    \/ LoadConfig
    \/ MakeOutputDir
    \/ GenerateHTML
    \/ CopyStylesheet
    \/ MakeAssetsDir
    \/ WriteRedirects
    \/ WriteNetlifyToml
    \/ WriteReadme
    \/ GenerateSiteReturns
    \/ DeployNext
    \/ ServerNext
    \/ Exit

Spec == Init /\ [][Next]_vars

----------------------------------------------------------------------------
(* deploy.js: DevServer.start, the watcher on clients/*.json *)

\* Number of change events the watcher receives.
MaxChanges == 2

\* What an edit may leave in configuration file i: a restaurant or a business
\* configuration, or text that does not parse.
EditedTexts(i) ==
    {Malformed} \cup {Stringify(generateConfigByType(a)) :
                         a \in {b \in AnswersFor(i) : b.siteType # "portfolio"}}

\* The file-system steps of generateSite between loadConfig and the README,
\* as the callback's own invocation runs them.
WatchedStep(p, cfg) ==
    CASE p = "gs_mkdir" ->
           [content |-> Directory, name |-> ".",
            op |-> "mkdir", next |-> "gs_html"]
      [] p = "gs_html" ->
           [content |-> RenderHTML(cfg), name |-> "index.html",
            op |-> "writeHTML", next |-> "gs_css"]
      [] p = "gs_css" ->
           [content |-> StylesCSS, name |-> "styles.css",
            op |-> "copyCSS", next |-> "gs_assets"]
      [] p = "gs_assets" ->
           [content |-> Directory, name |-> "assets",
            op |-> "mkdirAssets", next |-> "gs_redirects"]
      [] p = "gs_redirects" ->
           [content |-> redirectsContent, name |-> "_redirects",
            op |-> "writeRedirects", next |-> "gs_toml"]
      [] p = "gs_toml" ->
           [content |-> netlifyConfig, name |-> "netlify.toml",
            op |-> "writeToml", next |-> "gs_readme"]

WatchedStepPoints ==
    {"gs_mkdir", "gs_html", "gs_css", "gs_assets", "gs_redirects", "gs_toml"}

Handlers == DOMAIN watch.handlers
Running(h) == watch.handlers[h].pc # "done"

\* node deploy.js dev: the watcher is installed
StartDevServer ==
    /\ pc = "idle"
    /\ ~watch.up
    /\ watch' = [watch EXCEPT !.up = TRUE]
    /\ UNCHANGED <<clients, out, commandVars>>

\* An edit of configuration file i: the file holds new text.
EditConfig(i, text) == clients' = [clients EXCEPT ![i] = text]

\* The file is saved and chokidar emits 'change': the callback logs the
\* change and runs up to its first await, the readFile of loadConfig.
ConfigChanged(i, text) ==
    /\ watch.up
    /\ Len(watch.handlers) < MaxChanges
    /\ EditConfig(i, text)
    /\ watch' = [watch EXCEPT !.handlers =
                    Append(@, [pc |-> "gs_load", config |-> NoConfig,
                               log |-> <<"changed", "build-start">>,
                               file |-> i])]
    /\ UNCHANGED <<out, commandVars>>

\* WatchCatches without the try: the rejection is unhandled and ends the
\* server process.
WatchCrashes(h) ==
    watch' = [watch EXCEPT !.up = FALSE,
                           !.handlers[h].pc = "done",
                           !.handlers[h].log = Append(@, "build-error")]

\* generateSite logs and rethrows; the callback's catch logs the failure.
WatchCatches(h) ==
    watch' = [watch EXCEPT !.handlers[h].pc = "done",
                           !.handlers[h].log =
                               @ \o <<"build-error", "regen-error">>]

\* loadConfig in the callback's generateSite
WatchLoadConfig(h) ==
    /\ watch.handlers[h].pc = "gs_load"
    /\ IF ~ParseOk(clients[watch.handlers[h].file])
       THEN WatchCatches(h)
       ELSE watch' = [watch EXCEPT
                        !.handlers[h].pc = "gs_mkdir",
                        !.handlers[h].config =
                            Parse(clients[watch.handlers[h].file])]
    /\ UNCHANGED <<clients, out, commandVars>>

\* One file-system step of the callback's generateSite
WatchBuildStep(h) ==
    /\ watch.handlers[h].pc \in WatchedStepPoints
    /\ LET cfg == watch.handlers[h].config
           step == WatchedStep(watch.handlers[h].pc, cfg)
       IN  \E ok \in Outcomes(step.op) :
             IF ok
             THEN /\ out' = Put(out, cfg.client.slug, step.name, step.content)
                  /\ watch' = [watch EXCEPT !.handlers[h].pc = step.next]
             ELSE /\ WatchCatches(h)
                  /\ UNCHANGED out
    /\ UNCHANGED <<clients, commandVars>>

\* The README of the callback's generateSite
WatchWriteReadme(h) ==
    /\ watch.handlers[h].pc = "gs_readme"
    /\ LET cfg == watch.handlers[h].config
       IN  IF AssetsListThrows(cfg)
           THEN /\ WatchCatches(h)
                /\ UNCHANGED out
           ELSE \E ok \in Outcomes("writeReadme") :
                  IF ok
                  THEN /\ out' = Put(out, cfg.client.slug, "README.md",
                                     readmeContent(cfg))
                       /\ watch' = [watch EXCEPT !.handlers[h].pc = "gs_return"]
                  ELSE /\ WatchCatches(h)
                       /\ UNCHANGED out
    /\ UNCHANGED <<clients, commandVars>>

\* generateSite returns; the callback logs the regeneration.
WatchReturns(h) ==
    /\ watch.handlers[h].pc = "gs_return"
    /\ watch' = [watch EXCEPT !.handlers[h].pc = "done",
                              !.handlers[h].log =
                                  @ \o <<"build-ok", "regen-ok">>]
    /\ UNCHANGED <<clients, out, commandVars>>

\* The dev server on a store of valid configurations; the shared stylesheet
\* may be missing.
InitWatch ==
    /\ InitCommon
    /\ clients \in Stores([i \in Sites |-> EditedTexts(i) \ {Malformed}])
    /\ stray = FALSE
    /\ faulty = {"copyCSS"}

WatchNext ==
    \/ StartDevServer
    \/ \E i \in Sites : \E text \in EditedTexts(i) : ConfigChanged(i, text)
    \/ \E h \in Handlers : WatchLoadConfig(h)
    \/ \E h \in Handlers : WatchBuildStep(h)
    \/ \E h \in Handlers : WatchWriteReadme(h)
    \/ \E h \in Handlers : WatchReturns(h)

SpecWatch == InitWatch /\ [][WatchNext]_vars

----------------------------------------------------------------------------
(* generate-site.js: the 'if' block helper *)

\* JavaScript values a template may hand to the helper.
JsValues ==
    {[t |-> "boolean", v |-> b] : b \in BOOLEAN}
        \cup {[t |-> "null"], [t |-> "undefined"], [t |-> "object"]}
        \cup {[t |-> "string", v |-> x] : x \in {"", "x"}}
        \cup {[t |-> "number", v |-> n] : n \in {0, 1}}
        \cup {[t |-> "array", v |-> a] : a \in {<<>>, <<"x">>}}

\* if (conditional): the language's ToBoolean. Every object is true, an
\* array included, whatever its length.
ToBoolean(x) ==
    CASE x.t = "boolean" -> x.v
      [] x.t \in {"null", "undefined"} -> FALSE
      [] x.t = "string" -> x.v # ""
      [] x.t = "number" -> x.v # 0
      [] x.t \in {"array", "object"} -> TRUE

\* The branch the helper renders: options.fn(this) or options.inverse(this).
IfHelper(conditional) == IF ToBoolean(conditional) THEN "fn" ELSE "inverse"

CallIfHelper ==
    /\ calc = NoCalc
    /\ \E x \in JsValues :
         calc' = [fn |-> "if", arg |-> x, val |-> IfHelper(x)]
    /\ UNCHANGED <<clients, out, watch, pureVars>>

----------------------------------------------------------------------------
(* deploy.js: createClientConfig, the prompt and the synthesis *)

\* Longest name and longest slug typed at the prompt, in characters.
MaxLen == 3

\* A string is a sequence of characters: an upper-case letter, a lower-case
\* letter and a blank.
Chars == {"A", "b", " "}
Strings == UNION {[1..k -> Chars] : k \in 0..MaxLen}

\* String.prototype.toLowerCase
ToLowerCase(str) == [k \in DOMAIN str |-> IF str[k] = "A" THEN "a" ELSE str[k]]

\* String.prototype.trim
RECURSIVE TrimStart(_)
TrimStart(str) ==
    IF str # <<>> /\ Head(str) = " " THEN TrimStart(Tail(str)) ELSE str
RECURSIVE TrimEnd(_)
TrimEnd(str) ==
    IF str # <<>> /\ str[Len(str)] = " "
    THEN TrimEnd(SubSeq(str, 1, Len(str) - 1)) ELSE str
Trim(str) == TrimEnd(TrimStart(str))

\* str.replace(/\s+/g, '-'): every run of blanks becomes one hyphen.
RECURSIVE ReplaceBlankRuns(_)
ReplaceBlankRuns(str) ==
    IF str = <<>> THEN <<>>
    ELSE IF Head(str) = " "
    THEN <<"-">> \o ReplaceBlankRuns(TrimStart(Tail(str)))
    ELSE <<Head(str)>> \o ReplaceBlankRuns(Tail(str))

\* DefaultSlug without toLowerCase.
DefaultSlugKeepsCase(clientName) == ReplaceBlankRuns(clientName)

\* default: answers => answers.clientName.toLowerCase().replace(/\s+/g, '-')
DefaultSlug(clientName) == ReplaceBlankRuns(ToLowerCase(clientName))

\* validate: input => input.trim() !== ''
ValidName(input) == Trim(input) # <<>>

\* The answers of the prompt: an input prompt left empty takes its default,
\* anything typed is taken as typed.
PromptAnswers(clientName, typedSlug) ==
    [siteType |-> "restaurant",
     title |-> <<clientName, " - Site Officiel">>,
     clientName |-> clientName,
     clientSlug |-> IF typedSlug = <<>> THEN DefaultSlug(clientName)
                    ELSE typedSlug,
     description |-> "", primaryColor |-> "#3498db",
     secondaryColor |-> "#2c3e50"]

CallCreateClientConfig ==
    /\ calc = NoCalc
    /\ \E clientName \in {n \in Strings : ValidName(n)}, typedSlug \in Strings :
         calc' = [fn |-> "createClientConfig",
                  arg |-> [clientName |-> clientName, typedSlug |-> typedSlug],
                  val |-> generateConfigByType(
                              PromptAnswers(clientName, typedSlug))]
    /\ UNCHANGED <<clients, out, watch, pureVars>>

----------------------------------------------------------------------------
(* generate-site.js: generateAssetsList on hand-edited configurations *)

\* Most sections of a configuration.
MaxSections == 2

\* The image paths a configuration refers to; "none": the field is absent.
AssetPaths == {"/assets/a.jpg", "/assets/b.jpg"}
OptionalPaths == AssetPaths \cup {"none"}

\* The record rec with field set to path, or without the field.
WithOptional(rec, field, path) ==
    IF path = "none" THEN rec ELSE rec @@ [f \in {field} |-> path]

ItemChoices ==
    {WithOptional([name |-> "item"], "image", p) : p \in OptionalPaths}

\* A section's items: absent, none, or one item.
SectionChoices ==
    LET plain == {WithOptional([id |-> "s"], "image", p) : p \in OptionalPaths}
    IN  plain \cup {sec @@ [items |-> <<>>] : sec \in plain}
              \cup {sec @@ [items |-> <<it>>] : sec \in plain, it \in ItemChoices}

SectionLists == UNION {[1..k -> SectionChoices] : k \in 0..MaxSections}

\* Configurations with every optional block present or absent.
AssetConfigs ==
    LET base == [client |-> [name |-> "Acme", slug |-> 1]]
        headers == {base} \cup
            {base @@ [header |-> WithOptional([navigation |-> <<>>], "logo", p)] :
                p \in OptionalPaths}
        heroes == headers \cup
            {c @@ [hero |-> WithOptional([title |-> "t"], "backgroundImage", p)] :
                c \in headers, p \in OptionalPaths}
    IN  heroes \cup {c @@ [sections |-> l] : c \in heroes, l \in SectionLists}

\* The call of generateAssetsList: it throws or returns its list.
AssetsListCall(cfg) ==
    IF AssetsListThrows(cfg)
    THEN [threw |-> TRUE]
    ELSE [threw |-> FALSE, list |-> generateAssetsList(cfg)]

CallAssetsList ==
    /\ calc = NoCalc
    /\ \E cfg \in AssetConfigs :
         calc' = [fn |-> "generateAssetsList", arg |-> cfg,
                  val |-> AssetsListCall(cfg)]
    /\ UNCHANGED <<clients, out, watch, pureVars>>

----------------------------------------------------------------------------
(* The three functions, each called on one argument at a time *)

CallReturns ==
    /\ calc # NoCalc
    /\ calc' = NoCalc
    /\ UNCHANGED <<clients, out, watch, pureVars>>

InitPure ==
    /\ InitCommon
    /\ clients = [i \in Sites |-> Malformed]
    /\ stray = FALSE
    /\ faulty = {}

PureNext ==
    \/ CallIfHelper
    \/ CallCreateClientConfig
    \/ CallAssetsList
    \/ CallReturns

SpecPure == InitPure /\ [][PureNext]_vars

----------------------------------------------------------------------------
(* deploy.js: main, new-client; the store under new clients and edits *)

\* node deploy.js new-client: the prompt is answered, the configuration is
\* written to clients/<clientSlug>.json, over a file of that name if there
\* is one, and generateSite is called on it.
NewClient(answers) ==
    /\ pc = "idle"
    /\ clients' = [clients EXCEPT ![answers.clientSlug] =
                      Stringify(generateConfigByType(answers))]
    /\ pc' = "gs_load"
    /\ mode' = "new-client"
    /\ cur' = answers.clientSlug
    /\ result' = "running"
    /\ log' = << <<"config-created", answers.clientSlug>>,
                 <<"build-start", answers.clientSlug>> >>
    /\ UNCHANGED <<out, config, todo, err, steps, deployVars>>

\* The operator edits client.slug in configuration file i by hand. Nothing
\* reads the file until it is built.
EditSlug(i, slug) ==
    /\ pc = "idle"
    /\ ParseOk(clients[i])
    /\ Parse(clients[i]).client.slug # slug
    /\ EditConfig(i, Stringify([Parse(clients[i]) EXCEPT !.client.slug = slug]))
    /\ UNCHANGED <<out, pc, mode, cur, config, todo, result, err, log, steps,
                   deployVars>>

\* A store of restaurant configurations and unparsable files; no operation
\* fails.
InitStore ==
    /\ InitCommon
    /\ clients \in Stores([i \in Sites |-> DeployedTexts(i)])
    /\ stray = FALSE
    /\ faulty = {}

StoreNext ==
    \/ \E i \in Sites : \E a \in AnswersFor(i) :
          a.siteType = "restaurant" /\ NewClient(a)
    \/ \E i, slug \in Sites : EditSlug(i, slug)
    \/ \E i \in Sites : StartGenerateSite(i)
    \/ LoadConfig
    \/ MakeOutputDir
    \/ GenerateHTML
    \/ CopyStylesheet
    \/ MakeAssetsDir
    \/ WriteRedirects
    \/ WriteNetlifyToml
    \/ WriteReadme
    \/ GenerateSiteReturns
    \/ Exit

SpecStore == InitStore /\ [][StoreNext]_vars

----------------------------------------------------------------------------
(* The pipeline with both bulk commands *)

BulkNext ==
    \/ Next
    \/ StartGenerateAll
    \/ ReadClientsDir
    \/ NextConfigFile

SpecBulk == Init /\ [][BulkNext]_vars

----------------------------------------------------------------------------
(* Properties of the builder, checked under SpecBuild *)

Last(seq) == seq[Len(seq)]
OpsOf(seq) == [k \in 1..Len(seq) |-> seq[k][1]]
IsPrefix(a, b) == Len(a) <= Len(b) /\ \A k \in 1..Len(a) : a[k] = b[k]
Failed(seq) == \E k \in 1..Len(seq) : ~seq[k][3]
FailedFor(seq, s) == \E k \in 1..Len(seq) : seq[k][2] = s /\ ~seq[k][3]
Logged(line) == line \in RANGE(log)

\* C1: in a bulk build that has enumerated the store, every configuration is
\* built (attempted) whatever happened to the others, and a failed one is
\* logged: a failure never aborts the batch.
C1_BulkBuildIsolatesFailures ==
    (mode = "all" /\ pc = "done" /\ Logged(<<"bulk-start", NumClients>>)) =>
        /\ \A i \in Sites : Logged(<<"build-start", i>>)
        /\ \A i \in Sites : FailedFor(steps, i) => Logged(<<"build-error", i>>)

\* C3: building the configuration synthesized for an unregistered site type
\* (no header, no hero) does not throw when no file operation fails: the
\* build returns and the manifest is written.
C3_UnregisteredTypeBuilds ==
    (mode = "single" /\ pc = "done" /\ config # NoConfig
        /\ "header" \notin DOMAIN config /\ "hero" \notin DOMAIN config
        /\ err # "EIO") =>
        /\ result = "returned"
        /\ Exists(cur, "README.md")

\* C4: when a step of a single build fails, the build stops there (the failed
\* step is the last operation performed), the error reaches the caller of
\* generateSite, and the failing step and everything after it leave the
\* output tree exactly as the earlier steps wrote it.
C4_FailedStepAbortsBuild ==
    /\ []((mode = "single" /\ Failed(steps)) =>
            /\ ~Last(steps)[3]
            /\ \A k \in 1..(Len(steps) - 1) : steps[k][3]
            /\ pc = "done" /\ result = "threw" /\ err # "")
    /\ [][((mode = "single" /\ Failed(steps')) => out' = out)]_vars

\* C4 witness: a single build that failed at the stylesheet, after the
\* directory and the markup were written, and left them there.
C4_Witness ==
    /\ mode = "single" /\ pc = "done" /\ result = "threw"
    /\ Last(steps) = <<"copyCSS", cur, FALSE>>
    /\ Exists(cur, ".") /\ Exists(cur, "index.html")
    /\ ~Exists(cur, "styles.css")

\* The order the specification lists the seven steps in.
SpecifiedOrder ==
    <<"mkdir", "writeHTML", "copyCSS", "mkdirAssets", "writeToml",
      "writeRedirects", "writeReadme">>

\* The order the source performs them in.
PerformedOrder ==
    <<"mkdir", "writeHTML", "copyCSS", "mkdirAssets", "writeRedirects",
      "writeToml", "writeReadme">>

\* The file-system writes among the operations performed.
RECURSIVE Writes(_)
Writes(seq) ==
    IF seq = <<>> THEN <<>>
    ELSE (IF Head(seq)[1] \in RANGE(SpecifiedOrder) THEN <<Head(seq)>> ELSE <<>>)
             \o Writes(Tail(seq))

\* Strictly one after another: a step starts only when every step before it
\* has completed.
Sequential(seq) == \A k \in 1..(Len(seq) - 1) : seq[k][3]

\* C5 (as stated): the steps of one build run one after another in the order
\* directory, markup, stylesheet, assets directory, hosting descriptor,
\* routing rule, manifest.
C5_StepsInSpecifiedOrder ==
    mode = "single" =>
        /\ IsPrefix(OpsOf(Writes(steps)), SpecifiedOrder)
        /\ Sequential(Writes(steps))

\* C5 (amended): the steps of one build run one after another in the order
\* directory, markup, stylesheet, assets directory, routing rule, hosting
\* descriptor, manifest; a completed build has run all seven.
C5_StepsInPerformedOrder ==
    mode = "single" =>
        /\ IsPrefix(OpsOf(Writes(steps)), PerformedOrder)
        /\ Sequential(Writes(steps))
        /\ result = "returned" => OpsOf(Writes(steps)) = PerformedOrder

\* C5 witness: a completed build whose routing rule and hosting descriptor
\* are both on disk.
C5_Witness ==
    /\ mode = "single" /\ pc = "done" /\ result = "returned"
    /\ Len(Writes(steps)) = 7
    /\ Exists(cur, "_redirects") /\ Exists(cur, "netlify.toml")

----------------------------------------------------------------------------
(* Properties of deployment, checked under Spec *)

Deploying == mode \in {"deploy", "deployAll"}
CountLine(line) == Cardinality({k \in 1..Len(log) : log[k] = line})
SiteDirs == {s \in Sites : Exists(s, ".")}
StepsFor(s) == SelectSeq(steps, LAMBDA e : e[2] = s)

\* C2: a bulk deploy returns normally having attempted every site directory
\* exactly once, and reports exactly as many successes as there are
\* directories none of whose operations failed.
C2_DeployAllAttemptsEverySite ==
    (mode = "deployAll" /\ pc = "done" /\ OutputRootExists) =>
        /\ result = "returned"
        /\ \A s \in Sites :
             CountLine(<<"deploy-start", s>>) = IF Exists(s, ".") THEN 1 ELSE 0
        /\ \A s \in Sites : CountLine(<<"deploy-ready", s>>) <= 1
        /\ Cardinality({s \in Sites : Logged(<<"deploy-ready", s>>)})
             = Cardinality(SiteDirs)
                 - Cardinality({s \in SiteDirs : FailedFor(steps, s)})

\* C2 witness: a bulk deploy that is over, in which the first site failed and
\* the second, attempted after it, succeeded.
C2_Witness ==
    /\ mode = "deployAll" /\ pc = "done"
    /\ Logged(<<"deploy-error", 1>>)
    /\ Logged(<<"deploy-ready", 2>>)

\* Unversioned (0), Versioned (1), Committed (2)
DeployState(s) ==
    IF ~Exists(s, ".git") THEN 0 ELSE IF git[s].commits = 0 THEN 1 ELSE 2

\* The running deploy found site s with version-control metadata.
FoundVersioned(s) ==
    Exists(s, ".git") /\ <<"gitInit", s, TRUE>> \notin RANGE(steps)

\* C6: the state of a site directory never moves backward; init runs only on
\* a directory without metadata and the ignore-list is written only right
\* after that init; a deploy that finds metadata performs only add, then
\* commit.
C6_DeployStateMachine ==
    /\ [][\A s \in Sites : DeployState(s)' >= DeployState(s)]_vars
    /\ [][(Deploying /\ Len(steps') > Len(steps)) =>
            /\ Last(steps')[1] = "gitInit" => DeployState(cur) = 0
            /\ Last(steps')[1] = "writeGitignore" =>
                 (steps # <<>> /\ Last(steps) = <<"gitInit", cur, TRUE>>)]_vars
    /\ [](Deploying =>
            \A s \in Sites : FoundVersioned(s) =>
                IsPrefix(OpsOf(StepsFor(s)), <<"gitAdd", "gitCommit">>))

\* C6 witness: a deploy on a Committed directory that is over and performed
\* add and commit, nothing else.
C6_Witness ==
    /\ mode = "deploy" /\ pc = "done"
    /\ DeployState(cur) = 2
    /\ steps = << <<"gitAdd", cur, TRUE>>, <<"gitCommit", cur, TRUE>> >>

\* C7 (as stated): deploy can be invoked on every site whenever no command
\* runs, and every commit that succeeds in a deploy of an already versioned
\* site adds one commit.
C7_EveryRedeployAddsCommit ==
    /\ [](pc = "idle" => \A s \in Sites : ENABLED StartDeploy(s))
    /\ [][(pc = "dp_commit" /\ pc' = "dp_report" /\ FoundVersioned(cur)) =>
            git'[cur].commits = git[cur].commits + 1]_vars

\* C7 (amended): deploy can be invoked on every site whenever no command
\* runs; a successful deploy of an already versioned site adds exactly one
\* commit if the site's tracked files differ from the last commit, and none
\* if they do not.
C7_RedeployAddsCommitIfChanged ==
    /\ [](pc = "idle" => \A s \in Sites : ENABLED StartDeploy(s))
    /\ [][(pc = "dp_commit" /\ pc' = "dp_report" /\ FoundVersioned(cur)) =>
            git'[cur].commits = git[cur].commits
                + (IF Tracked(out[cur]) # git[cur].head THEN 1 ELSE 0)]_vars

\* C7 witness: a deploy of a Committed site whose files had changed has just
\* added the second commit.
C7_Witness ==
    /\ mode = "deploy" /\ pc = "dp_report"
    /\ FoundVersioned(cur)
    /\ git[cur].commits = 2

\* C8: a deploy of one site never throws; it returns true exactly when no
\* operation it attempted failed; a failure is logged (last line) and gives
\* false; the next-steps lines are logged only with true, in order, last,
\* and then the last operation was the commit.
C8_DeployReturnsBoolean ==
    (mode = "deploy" /\ pc = "done") =>
        /\ result = "returned" /\ err = ""
        /\ ret \in {"true", "false"}
        /\ (ret = "true") <=> ~Failed(steps)
        /\ ret = "false" =>
             /\ Last(log) = <<"deploy-error", cur>>
             /\ \A k \in 1..5 : ~Logged(NextStepLines(cur)[k])
        /\ ret = "true" =>
             /\ Last(steps) = <<"gitCommit", cur, TRUE>>
             /\ Len(log) >= 6
             /\ SubSeq(log, Len(log) - 4, Len(log)) = NextStepLines(cur)

\* C8 witness: a deploy whose commit failed has returned false.
C8_Witness ==
    /\ mode = "deploy" /\ pc = "done" /\ ret = "false"
    /\ Last(steps) = <<"gitCommit", cur, FALSE>>

\* C9 (as stated): a deploy of one site in which a version-control operation
\* failed ends with the error thrown to its caller.
C9_DeployPropagatesError ==
    (mode = "deploy" /\ pc = "done" /\ Failed(steps)) => result = "threw"

\* C9 (amended): a failing build of one site throws to its caller; a deploy
\* of one site in which a version-control operation failed does not: it
\* returns false and its caller sees a normal return.
C9_OnlyBuildPropagatesError ==
    /\ (mode = "single" /\ pc = "done" /\ Failed(steps)) =>
          (result = "threw" /\ err # "")
    /\ (mode = "deploy" /\ pc = "done" /\ Failed(steps)) =>
          (result = "returned" /\ err = "" /\ ret = "false")

\* C9 witness: a deploy whose add failed is over.
C9_Witness ==
    /\ mode = "deploy" /\ pc = "done"
    /\ Last(steps) = <<"gitAdd", cur, FALSE>>

\* A command that is not a build is running or ends.
NotBuilding ==
    \/ mode \in {"deploy", "deployAll", "api", "static"}
    \/ mode' \in {"deploy", "deployAll", "api", "static"}

\* C10 (as stated): no deploy and no dev-server request changes anything
\* under the output root.
C10_OnlyBuilderWrites == [][NotBuilding => out' = out]_vars

\* C10 (amended): no deploy and no dev-server request creates, modifies or
\* deletes a bundle file or directory; a deploy adds only .git and
\* .gitignore to a site directory, and a dev-server request writes nothing.
C10_DeployWritesOnlyVcFiles ==
    [][/\ NotBuilding =>
            \A s \in Sites : \A n \in BundleNames : out'[s][n] = out[s][n]
       /\ (mode \in {"api", "static"} \/ mode' \in {"api", "static"}) =>
            out' = out]_vars

\* C10 witness: a deploy has written .git and .gitignore into a site
\* directory that holds a complete bundle.
C10_Witness ==
    /\ mode = "deploy" /\ pc = "dp_add"
    /\ steps = << <<"gitInit", cur, TRUE>>, <<"writeGitignore", cur, TRUE>> >>
    /\ \A n \in Names : Exists(cur, n)

----------------------------------------------------------------------------
(* Properties of the watcher, checked under SpecWatch *)

Finished(h) == watch.handlers[h].pc = "done"
Regenerated(h) == Last(watch.handlers[h].log) = "regen-ok"
BundleComplete(s) == \A n \in BundleNames : Exists(s, n)

\* C11: every change of a configuration file starts one rebuild of that
\* file; a rebuild that ends has logged its success or its failure, and one
\* that succeeded wrote the whole bundle; a failed rebuild leaves the watcher
\* running, so the next change still starts its rebuild.
C11_EveryChangeRebuilds ==
    /\ [][clients' # clients =>
            /\ Len(watch'.handlers) = Len(watch.handlers) + 1
            /\ clients'[Last(watch'.handlers).file]
                 # clients[Last(watch'.handlers).file]
            /\ Last(watch'.handlers).pc = "gs_load"]_vars
    /\ [][\A h \in Handlers : (Running(h) /\ Finished(h)') =>
            /\ Last(watch'.handlers[h].log) \in {"regen-ok", "regen-error"}
            /\ Regenerated(h)' =>
                 (\A n \in BundleNames :
                     out'[watch.handlers[h].config.client.slug][n] # Absent)]_vars
    /\ [][watch.up => watch'.up]_vars
    /\ []((watch.up /\ Len(watch.handlers) < MaxChanges) =>
            \A i \in Sites : ENABLED ConfigChanged(i, Malformed))

\* C11 witness: the first rebuild failed and was logged, and the rebuild of
\* a later change has succeeded.
C11_Witness ==
    /\ watch.up
    /\ Len(watch.handlers) >= 2
    /\ Finished(1) /\ Last(watch.handlers[1].log) = "regen-error"
    /\ Finished(2) /\ Regenerated(2)
    /\ BundleComplete(watch.handlers[2].config.client.slug)

----------------------------------------------------------------------------
(* Properties of the pure functions, checked under SpecPure *)

\* The values the specification calls falsy: false, null or absent, the
\* empty string, 0, and the empty list.
SpecifiedFalsy(x) ==
    \/ x.t = "boolean" /\ ~x.v
    \/ x.t \in {"null", "undefined"}
    \/ x.t = "string" /\ x.v = ""
    \/ x.t = "number" /\ x.v = 0
    \/ x.t = "array" /\ x.v = <<>>

\* C12: the conditional helper renders the inverse branch for every falsy
\* value, the empty list included, and the truthy branch for every other
\* value.
C12_FalsyTakesInverse ==
    calc.fn = "if" =>
        calc.val = (IF SpecifiedFalsy(calc.arg) THEN "inverse" ELSE "fn")

LowerCaseNoBlank(str) == \A k \in DOMAIN str : str[k] \notin {"A", " "}

\* C13 (as stated): whatever is answered at the prompt, the synthesized
\* slug is lower-case and free of blanks, and the e-mail address is
\* contact@<slug>.com for that slug.
C13_SlugAlwaysNormalised ==
    calc.fn = "createClientConfig" =>
        /\ LowerCaseNoBlank(calc.val.client.slug)
        /\ calc.val.contact.email = <<"contact@", calc.val.client.slug, ".com">>

\* C13 (amended): when no slug is typed, the slug is the name in lower case
\* with every run of blanks replaced by one hyphen, hence lower-case and free
\* of blanks; a typed slug is kept as typed; in both cases the e-mail
\* address is contact@<slug>.com for that slug.
C13_DefaultSlugNormalised ==
    calc.fn = "createClientConfig" =>
        /\ calc.arg.typedSlug = <<>> =>
             /\ LowerCaseNoBlank(calc.val.client.slug)
             /\ Len(calc.val.client.slug) <= Len(calc.arg.clientName)
             /\ Len(calc.val.client.slug) > 0
        /\ calc.arg.typedSlug # <<>> =>
             calc.val.client.slug = calc.arg.typedSlug
        /\ calc.val.contact.email = <<"contact@", calc.val.client.slug, ".com">>

\* C13 witness: a name with an upper-case letter and a blank, no slug typed.
C13_Witness ==
    /\ calc.fn = "createClientConfig"
    /\ calc.arg.clientName = <<"A", " ", "b">>
    /\ calc.arg.typedSlug = <<>>
    /\ calc.val.client.slug = <<"a", "-", "b">>

\* The paths a configuration declares, absent fields skipped.
DeclaredIn(rec, field) == IF Truthy(rec, field) THEN {rec[field]} ELSE {}
DeclaredPaths(cfg) ==
    (IF "header" \in DOMAIN cfg THEN DeclaredIn(cfg.header, "logo") ELSE {})
    \cup (IF "hero" \in DOMAIN cfg
          THEN DeclaredIn(cfg.hero, "backgroundImage") ELSE {})
    \cup (IF "sections" \in DOMAIN cfg
          THEN UNION {DeclaredIn(sec, "image") \cup
                         (IF "items" \in DOMAIN sec
                          THEN UNION {DeclaredIn(it, "image") :
                                          it \in RANGE(sec.items)}
                          ELSE {}) : sec \in RANGE(cfg.sections)}
          ELSE {})

NoDuplicates(seq) == \A j, k \in DOMAIN seq : seq[j] = seq[k] => j = k

\* C14: for every configuration, whichever optional fields are absent,
\* generateAssetsList does not fail and lists exactly the declared paths,
\* each once.
C14_AssetsListIsDeclaredSet ==
    calc.fn = "generateAssetsList" =>
        /\ ~calc.val.threw
        /\ RANGE(calc.val.list) = DeclaredPaths(calc.arg)
        /\ NoDuplicates(calc.val.list)

----------------------------------------------------------------------------
(* Properties of the configuration store, checked under SpecStore *)

SlugOf(i) == Parse(clients[i]).client.slug

\* C15: whatever new clients were created, files edited and sites built, no
\* two configuration files resolve to the same slug, and a build never
\* writes the output directory another configuration file resolves to.
C15_SlugsUnique ==
    /\ \A i, j \in Sites :
         (i # j /\ ParseOk(clients[i]) /\ ParseOk(clients[j])) =>
             SlugOf(i) # SlugOf(j)
    /\ (pc = "done" /\ result = "returned" /\ config # NoConfig) =>
         \A j \in Sites \ {cur} :
             ParseOk(clients[j]) => SlugOf(j) # config.client.slug

----------------------------------------------------------------------------
(* Idempotence of the build, checked under SpecBuild *)

\* C16: once a site's bundle is complete, no step of a further build of the
\* same configuration changes any entry of it, and the further build is not
\* stopped by the output directory being there: its mkdir can succeed.
C16_RebuildIsIdentical ==
    /\ [][\A s \in Sites : BundleComplete(s) =>
            \A n \in BundleNames : out'[s][n] = out[s][n]]_vars
    /\ []((pc = "gs_mkdir" /\ BundleComplete(config.client.slug)) =>
            ENABLED (MakeOutputDir /\ pc' = "gs_html"))

\* C16 witness: a second build of a site whose bundle was complete has
\* performed every step up to the manifest without a failure.
C16_Witness ==
    /\ mode = "single" /\ pc = "gs_readme"
    /\ BundleComplete(cur)
    /\ ~Failed(steps)
    /\ OpsOf(Writes(steps)) = SubSeq(PerformedOrder, 1, 6)

----------------------------------------------------------------------------
(* Concurrency of watch-triggered rebuilds, checked under SpecWatch *)

\* C17: two rebuilds the watcher started for the same configuration file are
\* never in progress at the same time.
C17_RebuildsNeverOverlap ==
    \A g, h \in Handlers :
        (g # h /\ watch.handlers[g].file = watch.handlers[h].file) =>
            ~(Running(g) /\ Running(h))

----------------------------------------------------------------------------
(* Sequencing of the bulk commands, checked under SpecBulk *)

\* The sites of the operations performed and of the lines logged for one
\* site, in the order they happened.
StepSites == [k \in 1..Len(SelectSeq(steps, LAMBDA e : e[2] # 0)) |->
                 SelectSeq(steps, LAMBDA e : e[2] # 0)[k][2]]
SiteLines ==
    SelectSeq(log, LAMBDA l : l[1] \notin {"bulk-start", "bulk-ok", "bulk-error"})
LineSites == [k \in 1..Len(SiteLines) |-> SiteLines[k][2]]
NonDecreasing(seq) == \A j, k \in DOMAIN seq : j < k => seq[j] <= seq[k]

\* C18: in a bulk build and in a bulk deploy the operations of the sites are
\* not interleaved and follow the enumeration order: every operation and
\* every log line of a site comes after all those of the sites enumerated
\* before it, and an operation that failed is the last one of its site.
C18_BulkIsSequential ==
    mode \in {"all", "deployAll"} =>
        /\ NonDecreasing(StepSites)
        /\ NonDecreasing(LineSites)
        /\ \A k \in 1..(Len(steps) - 1) :
             ~steps[k][3] => steps[k + 1][2] > steps[k][2]
        /\ cur # 0 => \A k \in DOMAIN StepSites : StepSites[k] <= cur

\* C18 witness: a bulk build that is over and has built the first and the
\* second site.
C18_Witness ==
    /\ mode = "all" /\ pc = "done"
    /\ Logged(<<"build-ok", 1>>) /\ Logged(<<"build-ok", 2>>)
    /\ ~Failed(steps)
    /\ Len(StepSites) > 2

----------------------------------------------------------------------------
(* Initialisation of version control, checked under Spec *)

\* C19: a site directory that has version-control metadata has the
\* ignore-list too, except while the deploy that initialises it is between
\* the two; a later deploy never finds the one without the other.
C19_VersionedHasIgnoreList ==
    \A s \in Sites :
        (Exists(s, ".git") /\ ~(pc = "dp_ignore" /\ cur = s)) =>
            Exists(s, ".gitignore")

====
